---- MODULE Spec2Model ----
(***************************************************************************)
(* Model of omi_trans.py: the /livetranscript and /webhook pipelines, the  *)
(* shortening step summarize_text, ask_groq, translate_to_english, and the *)
(* /tasks handlers over the SQLite-backed Task table of database.py.       *)
(*                                                                         *)
(* The two pipeline handlers are `async def` coroutines that call their    *)
(* collaborators synchronously, so each runs on the event-loop thread from *)
(* the end of `await request.json()` to its return.  The /tasks handlers   *)
(* are plain `def` and are dispatched by the loop to a worker thread.      *)
(***************************************************************************)
EXTENDS Integers, Sequences, FiniteSets, TLC

\* ---------------------------------------------------------------- bounds
MaxSegs == 2        \* segments in a /livetranscript body
MaxTaskId == 2      \* the add handler is not run beyond this row id

\* ------------------------------------------------------ program constants
MaxLength == 200    \* max_length passed to summarize_text

\* ------------------------------------------------------------ input sets
Reqs == {"r1", "r2"}
Char == {" ", "x"}
TaskTexts == {"buy milk"}
Scores == {-21, -20, 20, 21}          \* compound polarity, in hundredths
AnswerLens == {MaxLength, MaxLength + 1}
BodyLens == {20, 300}                 \* raw body of a non-200 LLM reply
ErrLens == {30, 170}                  \* str(e) of a raised exception
SummaryLens == {MaxLength, MaxLength + 1}
Statuses == {429}

\* the "text" of a segment, and the "transcript" of a /webhook body
SegTexts == {<<>>, <<" ">>, <<"x">>}
RawTranscripts == {<<>>, <<" ">>, <<" ", " ">>, <<"x">>, <<" ", "x", " ">>, <<"x", " ", "x">>}

Segments ==
    {[has |-> TRUE, text |-> t] : t \in SegTexts}
        \cup {[has |-> FALSE, text |-> <<>>]}

RECURSIVE SegListsUpTo(_)
SegListsUpTo(n) ==
    IF n = 0 THEN {<<>>}
    ELSE LET S == SegListsUpTo(n - 1)
         IN  S \cup {Append(s, g) : s \in {t \in S : Len(t) = n - 1}, g \in Segments}

\* A request body: bad = request.json() or the field access raises.
LiveBodies ==
    {[bad |-> b, segments |-> s, transcript |-> <<>>] :
        b \in {FALSE}, s \in SegListsUpTo(MaxSegs)}
        \cup {[bad |-> TRUE, segments |-> <<>>, transcript |-> <<>>]}
WebhookBodies ==
    {[bad |-> b, segments |-> <<>>, transcript |-> t] :
        b \in {FALSE}, t \in RawTranscripts}
        \cup {[bad |-> TRUE, segments |-> <<>>, transcript |-> <<>>]}

\* ------------------------------------------------------------------ texts
\* A string the pipeline produces, kept as its origin and its length.
NoText == [kind |-> "none", of |-> "none", status |-> 0, hops |-> 0, len |-> 0]
Lit(s, n) == [kind |-> s, of |-> s, status |-> 0, hops |-> 0, len |-> n]
Answer(n) == [kind |-> "answer", of |-> "answer", status |-> 200, hops |-> 0, len |-> n]
\* f"<cross> Error {res.status}: {body}": 8 + 3 + 2 characters, then the body
StatusError(st, n) ==
    [kind |-> "status_error", of |-> "status_error", status |-> st, hops |-> 0,
     len |-> 13 + n]
\* f"<cross> Error while fetching from Groq API: {str(e)}": 39 characters, then str(e)
FetchError(n) ==
    [kind |-> "fetch_error", of |-> "fetch_error", status |-> 0, hops |-> 0,
     len |-> 39 + n]
\* summarizer(text, ...)[0]["summary_text"], n characters long
SummaryOf(t, n) ==
    [kind |-> "summary", of |-> t.of, status |-> t.status, hops |-> t.hops + 1,
     len |-> n]

MsgNoTranscription == Lit("No transcription received", 25)
MsgNoValid == Lit("No valid transcription received", 31)
MsgISE == Lit("Internal Server Error", 21)
MsgWebhook == Lit("Webhook received", 16)
MsgAdded == Lit("Task added successfully!", 24)
MsgDeleted == Lit("Task deleted successfully!", 26)
MsgNotFound == Lit("Task not found", 14)

\* --------------------------------------------------------- pure functions
RECURSIVE JoinTexts(_)
\* " ".join(segment["text"] for segment in segments if "text" in segment)
JoinTexts(segs) ==
    LET kept == SelectSeq(segs, LAMBDA g : g.has)
    IN  IF kept = <<>> THEN <<>>
        ELSE IF Len(kept) = 1 THEN kept[1].text
        ELSE kept[1].text \o <<" ">> \o JoinTexts(Tail(kept))

RECURSIVE LStrip(_)
LStrip(s) == IF s # <<>> /\ Head(s) = " " THEN LStrip(Tail(s)) ELSE s

RECURSIVE RStrip(_)
RStrip(s) ==
    IF s # <<>> /\ s[Len(s)] = " " THEN RStrip(SubSeq(s, 1, Len(s) - 1)) ELSE s

StripMutant(s) == s
\* str.strip()
Strip(s) == RStrip(LStrip(s))

\* GoogleTranslator(source='auto', target='en').translate(text)
GoogleTranslate(text) == [i \in DOMAIN text |-> IF text[i] = "x" THEN "e" ELSE text[i]]

translate_to_englishMutant(text, ok) == IF ok THEN GoogleTranslate(text) ELSE <<>>
translate_to_english(text, ok) == IF ok THEN GoogleTranslate(text) ELSE text

analyze_sentiment(score) ==
    IF score > 20 THEN "Happy"
    ELSE IF score < -20 THEN "Sad"
    ELSE "Neutral"

\* summarize_text's first branch: the text is returned as it is
Fits(text, max_length) == text.len <= max_length

Ids(store) == {t.id : t \in store}
NextIdMutant(store) == Cardinality(store) + 1
\* the row id SQLite gives an INTEGER PRIMARY KEY on insert
NextId(store) ==
    IF store = {} THEN 1
    ELSE (CHOOSE m \in Ids(store) : \A k \in Ids(store) : k <= m) + 1

\* ------------------------------------------------------------------ state
VARIABLES
    pc,       \* where each request stands
    ep,       \* the route each request was sent to
    loop,     \* the request whose coroutine holds the event-loop thread, or "free"
    req,      \* the handler's locals and the calls it has made, per request
    result,   \* the response of a request that is returning
    tasks     \* the rows of the tasks table

vars == <<pc, ep, loop, req, result, tasks>>

PipelineEps == {"livetranscript", "webhook"}
TaskEps == {"tasks_get", "tasks_add", "tasks_delete"}
\* the states in which a handler waits on a blocking collaborator call
Blocking == {"translate", "llm", "summ1", "summ2", "hung"}

NoReq ==
    [parsed |-> FALSE, blank |-> FALSE, transcript |-> <<>>, translated |-> <<>>,
     transFailed |-> FALSE, sentInput |-> <<>>, llmInput |-> <<>>, mood |-> "none",
     llmStatus |-> 0, full |-> NoText, raw |-> NoText, ai |-> NoText,
     nTrans |-> 0, nSent |-> 0, nLLM |-> 0, nSumm |-> 0,
     summRaised |-> "no", escaped |-> FALSE,
     taskText |-> "none", taskId |-> 0, dbFailed |-> FALSE]

NoResult ==
    [status |-> 0, kind |-> "none", message |-> NoText, sentiment |-> "none",
     response |-> NoText, tasks |-> {}]

Info(msg) ==
    [status |-> 200, kind |-> "info", message |-> msg, sentiment |-> "none",
     response |-> NoText, tasks |-> {}]
Payload(msg, mood, response) ==
    [status |-> 200, kind |-> "ok", message |-> msg, sentiment |-> mood,
     response |-> response, tasks |-> {}]
\* the framework's answer to an exception no handler caught
Http500 ==
    [status |-> 500, kind |-> "http500", message |-> NoText, sentiment |-> "none",
     response |-> NoText, tasks |-> {}]
TaskReply(kind, msg, rows) ==
    [status |-> 200, kind |-> kind, message |-> msg, sentiment |-> "none",
     response |-> NoText, tasks |-> rows]

UncaughtMutant(route) == Http500
\* what becomes of an exception that leaves the handler's body
Uncaught(route) ==
    IF route \in PipelineEps
    THEN Info(MsgISE) \* except Exception: return {"message": "Internal Server Error"}
    ELSE Http500      \* get_tasks, add_task, delete_task have no try

\* all blank: joining and trimming leaves nothing
AllBlank(route, body) ==
    IF route = "livetranscript"
    THEN \A i \in DOMAIN body.segments :
            body.segments[i].has =>
                \A j \in DOMAIN body.segments[i].text : body.segments[i].text[j] = " "
    ELSE \A j \in DOMAIN body.transcript : body.transcript[j] = " "

Init ==
    /\ pc = [r \in Reqs |-> "idle"]
    /\ ep = [r \in Reqs |-> "none"]
    /\ loop = "free"
    /\ req = [r \in Reqs |-> NoReq]
    /\ result = [r \in Reqs |-> NoResult]
    /\ tasks = {}

\* ---------------------------------------------------------------- actions
\* a client sends a request; it waits until the event loop reads it
Arrive(r) ==
    /\ pc[r] = "idle"
    /\ pc' = [pc EXCEPT ![r] = "arrived"]
    /\ UNCHANGED <<ep, loop, req, result, tasks>>

\* live_transcription, lines 110-118 / receive_transcription, lines 139-143
StartPipeline(r) ==
    /\ pc[r] = "arrived"
    /\ loop = "free"
    /\ loop' = r
    /\ \E e \in PipelineEps :
       \E body \in IF e = "livetranscript" THEN LiveBodies ELSE WebhookBodies :
        LET transcript ==
                IF e = "livetranscript" THEN Strip(JoinTexts(body.segments))
                ELSE Strip(body.transcript)
            parsed == [req[r] EXCEPT !.parsed = TRUE, !.blank = AllBlank(e, body)]
        IN  /\ ep' = [ep EXCEPT ![r] = e]
            /\ IF body.bad
               THEN /\ req' = [req EXCEPT ![r] = [@ EXCEPT !.escaped = TRUE]]
                    /\ result' = [result EXCEPT ![r] = Uncaught(e)]
                    /\ pc' = [pc EXCEPT ![r] = "returning"]
               ELSE IF e = "livetranscript" /\ body.segments = <<>>
               THEN /\ req' = [req EXCEPT ![r] = parsed]
                    /\ result' = [result EXCEPT ![r] = Info(MsgNoTranscription)]
                    /\ pc' = [pc EXCEPT ![r] = "returning"]
               ELSE IF transcript = <<>>
               THEN /\ req' = [req EXCEPT ![r] = parsed]
                    /\ result' = [result EXCEPT ![r] =
                           IF e = "livetranscript" THEN Info(MsgNoValid)
                           ELSE Info(MsgNoTranscription)]
                    /\ pc' = [pc EXCEPT ![r] = "returning"]
               ELSE /\ req' = [req EXCEPT ![r] =
                           [parsed EXCEPT !.transcript = transcript]]
                    /\ result' = result
                    /\ pc' = [pc EXCEPT ![r] = "translate"]
    /\ UNCHANGED tasks

\* translated_text = translate_to_english(transcript)
Translate(r) ==
    /\ pc[r] = "translate"
    /\ \E ok \in BOOLEAN :
        req' = [req EXCEPT ![r] =
            [@ EXCEPT !.translated = translate_to_english(req[r].transcript, ok),
                      !.transFailed = ~ok,
                      !.nTrans = @ + 1]]
    /\ pc' = [pc EXCEPT ![r] = "sentiment"]
    /\ UNCHANGED <<ep, loop, result, tasks>>

\* sia.polarity_scores(translated_text)["compound"], then analyze_sentiment
Sentiment(r) ==
    /\ pc[r] = "sentiment"
    /\ \E score \in Scores :
        req' = [req EXCEPT ![r] =
            [@ EXCEPT !.sentInput = req[r].translated,
                      !.mood = analyze_sentiment(score),
                      !.nSent = @ + 1]]
    /\ pc' = [pc EXCEPT ![r] = "llm"]
    /\ UNCHANGED <<ep, loop, result, tasks>>

\* The handler after ask_groq has returned ai: line 125 on /livetranscript,
\* line 150 on /webhook.  rq is the request's record as ask_groq leaves it.
AfterAskGroq(r, rq, ai) ==
    IF ep[r] = "webhook"
    THEN /\ req' = [req EXCEPT ![r] = [rq EXCEPT !.ai = ai]]
         /\ result' = [result EXCEPT ![r] = Payload(MsgWebhook, rq.mood, ai)]
         /\ pc' = [pc EXCEPT ![r] = "returning"]
    ELSE IF Fits(ai, MaxLength)
    THEN /\ req' = [req EXCEPT ![r] = [rq EXCEPT !.ai = ai]]
         /\ result' = [result EXCEPT ![r] = Payload(ai, rq.mood, ai)]
         /\ pc' = [pc EXCEPT ![r] = "returning"]
    ELSE /\ req' = [req EXCEPT ![r] = [rq EXCEPT !.ai = ai, !.nSumm = @ + 1]]
         /\ result' = result
         /\ pc' = [pc EXCEPT ![r] = "summ2"]

\* ask_groq, lines 76-89: the request to the LLM and what comes back
AskGroq(r) ==
    /\ pc[r] = "llm"
    /\ LET rq == [req[r] EXCEPT !.llmInput = req[r].translated, !.nLLM = @ + 1]
       IN  \/ \E n \in AnswerLens :       \* status 200
                LET full == Answer(n)
                    rq2 == [rq EXCEPT !.llmStatus = 200, !.full = full]
                IN  IF Fits(full, MaxLength)
                    THEN AfterAskGroq(r, rq2, full)
                    ELSE /\ req' = [req EXCEPT ![r] = [rq2 EXCEPT !.nSumm = @ + 1]]
                         /\ result' = result
                         /\ pc' = [pc EXCEPT ![r] = "summ1"]
           \/ \E st \in Statuses, n \in BodyLens :      \* any other status
                AfterAskGroq(r, [rq EXCEPT !.llmStatus = st, !.raw = Lit("body", n)],
                             StatusError(st, n))
           \/ \E n \in ErrLens :          \* conn.request or json.loads raises
                AfterAskGroq(r, [rq EXCEPT !.llmStatus = -1], FetchError(n))
    /\ UNCHANGED <<ep, loop, tasks>>

\* line 83: the summarizer called inside ask_groq's try
SummarizeInAskGroq(r) ==
    /\ pc[r] = "summ1"
    /\ \/ \E n \in SummaryLens : AfterAskGroq(r, req[r], SummaryOf(req[r].full, n))
       \/ \E n \in ErrLens :
            AfterAskGroq(r, [req[r] EXCEPT !.summRaised = "ask_groq"], FetchError(n))
       \/ /\ pc' = [pc EXCEPT ![r] = "hung"]       \* the call does not return
          /\ UNCHANGED <<req, result>>
    /\ UNCHANGED <<ep, loop, tasks>>

\* line 125: the summarizer called by the handler's summarize_text
SummarizeInHandler(r) ==
    /\ pc[r] = "summ2"
    /\ \/ \E n \in SummaryLens :
            /\ result' = [result EXCEPT ![r] =
                    Payload(SummaryOf(req[r].ai, n), req[r].mood, req[r].ai)]
            /\ pc' = [pc EXCEPT ![r] = "returning"]
            /\ req' = req
       \/ /\ req' = [req EXCEPT ![r] =
                    [@ EXCEPT !.summRaised = "handler", !.escaped = TRUE]]
          /\ result' = [result EXCEPT ![r] = Uncaught(ep[r])]
          /\ pc' = [pc EXCEPT ![r] = "returning"]
       \/ /\ pc' = [pc EXCEPT ![r] = "hung"]       \* the call does not return
          /\ UNCHANGED <<req, result>>
    /\ UNCHANGED <<ep, loop, tasks>>

\* The /tasks handlers.  The event loop reads the request and hands it to a
\* worker thread, where the handler runs its session to the commit.

\* get_tasks
GetTasks(r) ==
    /\ pc[r] = "arrived"
    /\ loop = "free"
    /\ ep' = [ep EXCEPT ![r] = "tasks_get"]
    /\ \/ /\ result' = [result EXCEPT ![r] = TaskReply("tasks", NoText, tasks)]
          /\ req' = req
       \/ /\ result' = [result EXCEPT ![r] = Uncaught("tasks_get")]   \* db.query raises
          /\ req' = [req EXCEPT ![r] = [@ EXCEPT !.dbFailed = TRUE, !.escaped = TRUE]]
    /\ pc' = [pc EXCEPT ![r] = "returning"]
    /\ UNCHANGED <<loop, tasks>>

\* add_task
AddTask(r) ==
    /\ pc[r] = "arrived"
    /\ loop = "free"
    /\ ep' = [ep EXCEPT ![r] = "tasks_add"]
    /\ \E t \in TaskTexts :
        \/ /\ NextId(tasks) <= MaxTaskId
           /\ tasks' = tasks \cup {[id |-> NextId(tasks), task |-> t]}
           /\ result' = [result EXCEPT ![r] = TaskReply("added", MsgAdded, {})]
           /\ req' = [req EXCEPT ![r] = [@ EXCEPT !.taskText = t]]
        \/ /\ tasks' = tasks                                    \* db.commit raises
           /\ result' = [result EXCEPT ![r] = Uncaught("tasks_add")]
           /\ req' = [req EXCEPT ![r] =
                  [@ EXCEPT !.taskText = t, !.dbFailed = TRUE, !.escaped = TRUE]]
    /\ pc' = [pc EXCEPT ![r] = "returning"]
    /\ UNCHANGED loop

\* delete_task
DeleteTask(r) ==
    /\ pc[r] = "arrived"
    /\ loop = "free"
    /\ ep' = [ep EXCEPT ![r] = "tasks_delete"]
    /\ \E i \in 1..MaxTaskId :
        \/ /\ i \in Ids(tasks)
           /\ tasks' = {t \in tasks : t.id # i}
           /\ result' = [result EXCEPT ![r] = TaskReply("deleted", MsgDeleted, {})]
           /\ req' = [req EXCEPT ![r] = [@ EXCEPT !.taskId = i]]
        \/ /\ i \notin Ids(tasks)
           /\ tasks' = tasks
           /\ result' = [result EXCEPT ![r] = TaskReply("notfound", MsgNotFound, {})]
           /\ req' = [req EXCEPT ![r] = [@ EXCEPT !.taskId = i]]
        \/ /\ tasks' = tasks                           \* db.query or db.commit raises
           /\ result' = [result EXCEPT ![r] = Uncaught("tasks_delete")]
           /\ req' = [req EXCEPT ![r] =
                  [@ EXCEPT !.taskId = i, !.dbFailed = TRUE, !.escaped = TRUE]]
    /\ pc' = [pc EXCEPT ![r] = "returning"]
    /\ UNCHANGED loop

\* The event loop sends the response: a coroutine's return gives the loop
\* back; a worker's result is sent once the loop is free to pick it up.
Respond(r) ==
    /\ pc[r] = "returning"
    /\ loop \in {"free", r}
    /\ pc' = [pc EXCEPT ![r] = "idle"]
    /\ ep' = [ep EXCEPT ![r] = "none"]
    /\ loop' = IF loop = r THEN "free" ELSE loop
    /\ req' = [req EXCEPT ![r] = NoReq]
    /\ result' = [result EXCEPT ![r] = NoResult]
    /\ UNCHANGED tasks

\* what the server does for request r
Serve(r) ==
    \/ StartPipeline(r)
    \/ Translate(r)
    \/ Sentiment(r)
    \/ AskGroq(r)
    \/ SummarizeInAskGroq(r)
    \/ SummarizeInHandler(r)
    \/ GetTasks(r)
    \/ AddTask(r)
    \/ DeleteTask(r)
    \/ Respond(r)

Next == \E r \in Reqs : Arrive(r) \/ Serve(r)

Spec == Init /\ [][Next]_vars

\* The event loop runs a request it has read for as long as the handler can
\* take a step.  A collaborator call that does not return is the "hung" state:
\* the code sets no deadline on it, so no action leaves it.
FairSpec == Spec /\ \A r \in Reqs : WF_vars(Serve(r))

TypeOK ==
    /\ loop \in Reqs \cup {"free"}
    /\ \A r \in Reqs : ep[r] \in PipelineEps \cup TaskEps \cup {"none"}
    /\ \A r \in Reqs : loop = r => pc[r] \in Blocking \cup {"sentiment", "returning"}

\* ----------------------------------------------------------------- claims

\* C1: for every non-empty transcript posted to /livetranscript, whatever the
\* summarizer does, the `message` of the response is at most MaxLength long.
C1_Claim ==
    \A r \in Reqs :
        (pc[r] = "returning" /\ ep[r] = "livetranscript" /\ req[r].transcript # <<>>)
            => result[r].message.len <= MaxLength

\* C2: when the summarizer raises while a text longer than MaxLength is being
\* shortened, the request still ends with the normal payload carrying the LLM
\* answer: no LLM-fetch error string, no "Internal Server Error".
C2_Claim ==
    \A r \in Reqs :
        (pc[r] = "returning" /\ req[r].summRaised # "no")
            => /\ result[r].kind = "ok"
               /\ result[r].response.kind # "fetch_error"

\* C3: a /livetranscript or /webhook request whose body parses and whose
\* transcript is empty after joining and trimming returns a "no transcription
\* received" message, and no translation, sentiment, LLM or summarizer call is
\* made in it.
C3_EmptyShortCircuit ==
    \A r \in Reqs :
        (req[r].parsed /\ req[r].blank)
            => /\ pc[r] = "returning"
               /\ result[r] \in {Info(MsgNoTranscription), Info(MsgNoValid)}
               /\ req[r].nTrans = 0
               /\ req[r].nSent = 0
               /\ req[r].nLLM = 0
               /\ req[r].nSumm = 0

C3_Witness ==
    \E r \in Reqs :
        /\ ep[r] = "livetranscript"
        /\ req[r].parsed
        /\ req[r].blank
        /\ result[r] = Info(MsgNoValid)

\* C4: when the LLM call returned status 200, the `response` field of the
\* payload is the full answer the LLM produced, whatever its length.
C4_Claim ==
    \A r \in Reqs :
        (pc[r] = "returning" /\ req[r].llmStatus = 200 /\ result[r].kind = "ok")
            => result[r].response = req[r].full

C6_Claim ==
    \A r \in Reqs, q \in Reqs :
        (pc[r] \in {"translate", "llm"} /\ pc[q] = "arrived") => loop = "free"

\* C7: a /livetranscript request whose shortening step has called the
\* summarizer is eventually answered, even if that call never returns.
C7_Claim ==
    \A r \in Reqs :
        (ep[r] = "livetranscript" /\ pc[r] \in {"summ1", "summ2", "hung"})
            ~> (pc[r] = "returning")

\* C8: every step keeps the ids of the stored tasks distinct and each stored
\* task's id and text unchanged; add stores exactly one new row with the given
\* text under an id no stored row has; delete removes exactly the row of its
\* id; delete of an id that is not stored answers "Task not found" and leaves
\* the table as it is; list returns exactly the stored rows; nothing else
\* changes the table.
C8_Step ==
    /\ Cardinality(Ids(tasks')) = Cardinality(tasks')
    /\ \A t \in tasks : t.id \in Ids(tasks') => t \in tasks'
    /\ \A r \in Reqs :
        (pc[r] = "arrived" /\ pc'[r] = "returning") =>
            /\ result'[r].kind = "added" =>
                \E i \in 1..(MaxTaskId + 1) :
                    /\ i \notin Ids(tasks)
                    /\ tasks' = tasks \cup {[id |-> i, task |-> req'[r].taskText]}
            /\ result'[r].kind = "deleted" =>
                /\ req'[r].taskId \in Ids(tasks)
                /\ tasks' = {t \in tasks : t.id # req'[r].taskId}
            /\ (ep'[r] = "tasks_delete" /\ req'[r].taskId \notin Ids(tasks)
                    /\ ~req'[r].dbFailed) =>
                /\ result'[r] = TaskReply("notfound", MsgNotFound, {})
                /\ tasks' = tasks
            /\ result'[r].kind = "tasks" => (result'[r].tasks = tasks /\ tasks' = tasks)
            /\ result'[r].kind \notin {"added", "deleted"} => tasks' = tasks
    /\ (\A r \in Reqs : ~(pc[r] = "arrived" /\ pc'[r] = "returning")) => tasks' = tasks

C8_TaskStore == [][C8_Step]_vars

C8_Witness ==
    \E r \in Reqs :
        /\ pc[r] = "returning"
        /\ result[r].kind = "tasks"
        /\ result[r].tasks = {[id |-> 2, task |-> "buy milk"]}

\* C9: when the translation fails, the text given to the sentiment analyzer
\* and to the LLM is the untranslated transcript, and the failure does not end
\* the request with an error response.
C9_FailOpen ==
    \A r \in Reqs :
        req[r].transFailed
            => /\ req[r].translated = req[r].transcript
               /\ req[r].nSent > 0 => req[r].sentInput = req[r].transcript
               /\ req[r].nLLM > 0 => req[r].llmInput = req[r].transcript
               /\ pc[r] = "returning" =>
                    (result[r].kind = "ok" \/ req[r].summRaised = "handler")

C9_Witness ==
    \E r \in Reqs :
        /\ pc[r] = "returning"
        /\ req[r].transFailed
        /\ GoogleTranslate(req[r].transcript) # req[r].transcript
        /\ req[r].llmInput = req[r].transcript
        /\ result[r].kind = "ok"

\* C10: when the LLM answers with a status other than 200, the LLM is called
\* once and the request ends with the normal payload whose `response` is the
\* error string holding the status and the raw body.
C10_Claim ==
    \A r \in Reqs :
        (pc[r] = "returning" /\ req[r].llmStatus \in Statuses)
            => /\ req[r].nLLM = 1
               /\ result[r].kind = "ok"
               /\ result[r].response = StatusError(req[r].llmStatus, req[r].raw.len)
====
